---- MODULE Spec2Model ----
(***************************************************************************)
(* Paging simulator (sim_pag_fifo.c, sim_pag_random.c, sim_pag_fifo2ch.c,  *)
(* sim_pag_lru.c): the MMU (sim_mmu, reference_page) and the operating     *)
(* system routines (handle_page_fault, choose_page_to_be_replaced,         *)
(* replace_page, occupy_free_frame) of the four replacement policies.      *)
(*                                                                         *)
(* The ssystem structure is the record S.  Every C function is an operator *)
(* from a system record (and its arguments) to the system record it leaves *)
(* behind.  S.log is the text the functions print in detailed mode during  *)
(* the current call, one tuple per printf.  S.ub is raised when a function *)
(* indexes a table out of its bounds (pgt[-1], frt[-1]): the behaviour of  *)
(* the program is undefined from there on and the model stops.             *)
(***************************************************************************)
EXTENDS Integers, Sequences, FiniteSets, TLC

\* ---------------------------------------------------------------- bounds
MaxFrames == 3      \* numframes ranges over 1..MaxFrames
MaxCalls  == 4      \* sim_mmu calls in one run
AddrBits  == 6      \* width of unsigned / int (32 in the build, scaled down)
ClockBits == 2      \* width of the LRU clock and timestamps (scaled down)
RAND_MAX  == 3      \* largest value of rand() (scaled down)

Variants == {"FIFO", "RANDOM", "FIFO2CH", "LRU"}
Ops      == {"R", "W"}
\* The page tables tried on a machine of nf frames: a single page of one
\* byte, and one page more than there are frames, of two bytes each (the
\* fewest pages with which every frame can be replaced).
Configs(nf) == {[numpags |-> 1, pagsz |-> 1], [numpags |-> nf + 1, pagsz |-> 2]}

UMax == 2 ^ AddrBits            \* unsigned values are 0..UMax-1
NoAddr == UMax - 1              \* ~0U
ToUnsigned(x) == x % UMax
ToInt(x) == IF x >= UMax \div 2 THEN x - UMax ELSE x
ClockMod == 2 ^ ClockBits

Pages(S)  == 0 .. S.numpags - 1
Frames(S) == 0 .. S.numframes - 1

\* ------------------------------------------------------------ init_tables
\* memset(pgt, 0, ...)
ZeroPage == [present |-> 0, frame |-> 0, modified |-> 0, referenced |-> 0,
             timestamp |-> 0]

\* the loop and the three lines after it: frames 0..numframes-1 form the free
\* ring, listfree points to the last one
FreeRing(S) ==
    [i \in Frames(S) |-> [page |-> -1,
                          next |-> IF i < S.numframes - 1 THEN i + 1 ELSE 0]]

\* init_tables that leaves listfree on the first frame of the ring
init_tables_fifo_anchor_first(S) ==
    [S EXCEPT !.pgt = [p \in Pages(S) |-> ZeroPage],
              !.clock = 0,
              !.frt = FreeRing(S),
              !.listfree = 0,
              !.listoccupied = -1,
              !.log = << >>]

\* init_tables without the memset of the page table
init_tables_fifo_no_memset(S) ==
    [S EXCEPT !.clock = 0,
              !.frt = FreeRing(S),
              !.listfree = S.numframes - 1,
              !.listoccupied = -1,
              !.log = << >>]

init_tables_fifo(S) ==
    [S EXCEPT !.pgt = [p \in Pages(S) |-> ZeroPage],
              !.clock = 0,
              !.frt = FreeRing(S),
              !.listfree = S.numframes - 1,
              !.listoccupied = -1,
              !.log = << >>]

init_tables_2ch(S) ==
    [S EXCEPT !.pgt = [p \in Pages(S) |-> ZeroPage],
              !.frt = FreeRing(S),
              !.listfree = S.numframes - 1,
              !.listoccupied = -1,
              !.log = << >>]

init_tables(S) ==
    IF S.variant = "FIFO2CH" THEN init_tables_2ch(S) ELSE init_tables_fifo(S)

\* ---------------------------------------------------------- reference_page
\* reference_page that counts a write as a read
reference_page_fifo_counts_reads(S, page, op) ==
    IF op = "R" THEN [S EXCEPT !.numrefsread = @ + 1]
    ELSE IF op = "W" THEN [S EXCEPT !.pgt[page].modified = 1,
                                    !.numrefsread = @ + 1]
    ELSE S

reference_page_fifo(S, page, op) ==
    IF op = "R" THEN [S EXCEPT !.numrefsread = @ + 1]
    ELSE IF op = "W" THEN [S EXCEPT !.pgt[page].modified = 1,
                                    !.numrefswrite = @ + 1]
    ELSE S

\* reference_page that leaves the referenced bit alone
reference_page_2ch_no_bit(S, page, op) ==
    IF op = "R" THEN [S EXCEPT !.numrefsread = @ + 1]
    ELSE IF op = "W" THEN [S EXCEPT !.pgt[page].modified = 1,
                                    !.numrefswrite = @ + 1]
    ELSE S

reference_page_2ch(S, page, op) ==
    LET S1 == IF op = "R" THEN [S EXCEPT !.numrefsread = @ + 1]
              ELSE IF op = "W" THEN [S EXCEPT !.pgt[page].modified = 1,
                                              !.numrefswrite = @ + 1]
              ELSE S
    IN  [S1 EXCEPT !.pgt[page].referenced = 1]

\* reference_page that does not advance the clock
reference_page_lru_stopped_clock(S, page, op) ==
    LET S1 == IF op = "R" THEN [S EXCEPT !.numrefsread = @ + 1]
              ELSE IF op = "W" THEN [S EXCEPT !.pgt[page].modified = 1,
                                              !.numrefswrite = @ + 1]
              ELSE S
    IN  [S1 EXCEPT !.pgt[page].timestamp = S1.clock]

\* reference_page with the stamping inside the branch of the write
reference_page_lru_stamps_writes(S, page, op) ==
    LET S1 == IF op = "R" THEN [S EXCEPT !.numrefsread = @ + 1]
              ELSE IF op = "W" THEN [S EXCEPT !.pgt[page].modified = 1,
                                              !.numrefswrite = @ + 1,
                                              !.pgt[page].timestamp = S.clock]
              ELSE S
    IN  [S1 EXCEPT !.clock = (S1.clock + 1) % ClockMod]

\* reference_page that advances the clock before it stamps the page
reference_page_lru_stamps_late(S, page, op) ==
    LET S1 == IF op = "R" THEN [S EXCEPT !.numrefsread = @ + 1]
              ELSE IF op = "W" THEN [S EXCEPT !.pgt[page].modified = 1,
                                              !.numrefswrite = @ + 1]
              ELSE S
    IN  [S1 EXCEPT !.pgt[page].timestamp = (S1.clock + 1) % ClockMod,
                   !.clock = (S1.clock + 1) % ClockMod]

reference_page_lru(S, page, op) ==
    LET S1 == IF op = "R" THEN [S EXCEPT !.numrefsread = @ + 1]
              ELSE IF op = "W" THEN [S EXCEPT !.pgt[page].modified = 1,
                                              !.numrefswrite = @ + 1]
              ELSE S
    IN  [S1 EXCEPT !.pgt[page].timestamp = S1.clock,
                   !.clock = (S1.clock + 1) % ClockMod]

reference_page(S, page, op) ==
    CASE S.variant = "FIFO2CH" -> reference_page_2ch(S, page, op)
      [] S.variant = "LRU"     -> reference_page_lru(S, page, op)
      [] OTHER                 -> reference_page_fifo(S, page, op)

\* ------------------------------------------------------- occupy_free_frame
\* occupy_free_frame that does not link the old tail to the new frame
occupy_free_frame_fifo_unlinked(S, frame, page) ==
    LET S0 == [S EXCEPT !.log = Append(@, <<"Storing", page, frame>>)]
        S1 == IF S0.listoccupied = -1
              THEN [S0 EXCEPT !.frt[frame].next = frame]
              ELSE [S0 EXCEPT !.frt[frame].next = S0.frt[S0.listoccupied].next]
    IN  [S1 EXCEPT !.listoccupied = frame,
                   !.pgt[page].present = 1,
                   !.pgt[page].frame = frame,
                   !.pgt[page].modified = 0,
                   !.frt[frame].page = page]

occupy_free_frame_fifo(S, frame, page) ==
    LET S0 == [S EXCEPT !.log = Append(@, <<"Storing", page, frame>>)]
        S1 == IF S0.listoccupied = -1
              THEN [S0 EXCEPT !.frt[frame].next = frame]
              ELSE LET Sa == [S0 EXCEPT !.frt[frame].next =
                                             S0.frt[S0.listoccupied].next]
                   IN  [Sa EXCEPT !.frt[Sa.listoccupied].next = frame]
    IN  [S1 EXCEPT !.listoccupied = frame,
                   !.pgt[page].present = 1,
                   !.pgt[page].frame = frame,
                   !.pgt[page].modified = 0,
                   !.frt[frame].page = page]

occupy_free_frame_2ch(S, frame, page) ==
    LET S0 == [S EXCEPT !.log = Append(@, <<"Storing", page, frame>>)]
        S1 == IF S0.listoccupied = -1
              THEN [S0 EXCEPT !.frt[frame].next = frame]
              ELSE LET Sa == [S0 EXCEPT !.frt[frame].next =
                                             S0.frt[S0.listoccupied].next]
                   IN  [Sa EXCEPT !.frt[Sa.listoccupied].next = frame]
    IN  [S1 EXCEPT !.listoccupied = frame,
                   !.pgt[page].present = 1,
                   !.pgt[page].frame = frame,
                   !.pgt[page].modified = 0,
                   !.pgt[page].referenced = 1,
                   !.frt[frame].page = page]

occupy_free_frame_random(S, frame, page) ==
    [S EXCEPT !.log = Append(@, <<"Storing", page, frame>>),
              !.pgt[page].present = 1,
              !.pgt[page].frame = frame,
              !.pgt[page].modified = 0,
              !.frt[frame].page = page]

occupy_free_frame_lru(S, frame, page) ==
    [S EXCEPT !.log = Append(@, <<"Storing", page, frame>>),
              !.pgt[page].frame = frame,
              !.frt[frame].page = page,
              !.pgt[page].present = 1,
              !.pgt[page].referenced = 1]

occupy_free_frame(S, frame, page) ==
    CASE S.variant = "FIFO"    -> occupy_free_frame_fifo(S, frame, page)
      [] S.variant = "FIFO2CH" -> occupy_free_frame_2ch(S, frame, page)
      [] S.variant = "RANDOM"  -> occupy_free_frame_random(S, frame, page)
      [] OTHER                 -> occupy_free_frame_lru(S, frame, page)

\* ------------------------------------------------------------ replace_page
\* replace_page leaving the victim marked present
replace_page_keeps_victim(S, victim, newpage) ==
    IF victim \notin Pages(S) THEN [S EXCEPT !.ub = TRUE]
    ELSE
    LET frame == S.pgt[victim].frame
        S1 == IF S.pgt[victim].modified = 1
              THEN [S EXCEPT !.log = Append(@, <<"Writing", victim>>),
                             !.numpgwriteback = @ + 1]
              ELSE S
        S2 == [S1 EXCEPT !.log = Append(@, <<"Replacing", victim, newpage, frame>>)]
    IN  [S2 EXCEPT !.pgt[newpage].present = 1,
                   !.pgt[newpage].frame = frame,
                   !.pgt[newpage].modified = 0,
                   !.frt[frame].page = newpage]

\* replace_page leaving the modified bit of the new page as it was
replace_page_keeps_modified(S, victim, newpage) ==
    IF victim \notin Pages(S) THEN [S EXCEPT !.ub = TRUE]
    ELSE
    LET frame == S.pgt[victim].frame
        S1 == IF S.pgt[victim].modified = 1
              THEN [S EXCEPT !.log = Append(@, <<"Writing", victim>>),
                             !.numpgwriteback = @ + 1]
              ELSE S
        S2 == [S1 EXCEPT !.log = Append(@, <<"Replacing", victim, newpage, frame>>)]
        S3 == [S2 EXCEPT !.pgt[victim].present = 0]
    IN  [S3 EXCEPT !.pgt[newpage].present = 1,
                   !.pgt[newpage].frame = frame,
                   !.frt[frame].page = newpage]

\* replace_page leaving the frame of the new page as it was
replace_page_keeps_frame(S, victim, newpage) ==
    IF victim \notin Pages(S) THEN [S EXCEPT !.ub = TRUE]
    ELSE
    LET frame == S.pgt[victim].frame
        S1 == IF S.pgt[victim].modified = 1
              THEN [S EXCEPT !.log = Append(@, <<"Writing", victim>>),
                             !.numpgwriteback = @ + 1]
              ELSE S
        S2 == [S1 EXCEPT !.log = Append(@, <<"Replacing", victim, newpage, frame>>)]
        S3 == [S2 EXCEPT !.pgt[victim].present = 0]
    IN  [S3 EXCEPT !.pgt[newpage].present = 1,
                   !.pgt[newpage].modified = 0,
                   !.frt[frame].page = newpage]

\* replace_page that counts a write-back for every victim, modified or not
replace_page_counts_all(S, victim, newpage) ==
    IF victim \notin Pages(S) THEN [S EXCEPT !.ub = TRUE]
    ELSE
    LET frame == S.pgt[victim].frame
        S1 == IF S.pgt[victim].modified = 1
              THEN [S EXCEPT !.log = Append(@, <<"Writing", victim>>),
                             !.numpgwriteback = @ + 1]
              ELSE [S EXCEPT !.numpgwriteback = @ + 1]
        S2 == [S1 EXCEPT !.log = Append(@, <<"Replacing", victim, newpage, frame>>)]
        S3 == [S2 EXCEPT !.pgt[victim].present = 0]
    IN  [S3 EXCEPT !.pgt[newpage].present = 1,
                   !.pgt[newpage].frame = frame,
                   !.pgt[newpage].modified = 0,
                   !.frt[frame].page = newpage]

\* replace_page that also makes the reused frame the tail of the occupied ring
replace_page_moves_anchor(S, victim, newpage) ==
    IF victim \notin Pages(S) THEN [S EXCEPT !.ub = TRUE]
    ELSE
    LET frame == S.pgt[victim].frame
        S1 == IF S.pgt[victim].modified = 1
              THEN [S EXCEPT !.log = Append(@, <<"Writing", victim>>),
                             !.numpgwriteback = @ + 1]
              ELSE S
        S2 == [S1 EXCEPT !.log = Append(@, <<"Replacing", victim, newpage, frame>>)]
        S3 == [S2 EXCEPT !.pgt[victim].present = 0]
    IN  [S3 EXCEPT !.pgt[newpage].present = 1,
                   !.pgt[newpage].frame = frame,
                   !.pgt[newpage].modified = 0,
                   !.frt[frame].page = newpage,
                   !.listoccupied = frame]

\* pgt[victim] with victim outside the table is undefined behaviour
replace_page(S, victim, newpage) ==
    IF victim \notin Pages(S) THEN [S EXCEPT !.ub = TRUE]
    ELSE
    LET frame == S.pgt[victim].frame
        S1 == IF S.pgt[victim].modified = 1
              THEN [S EXCEPT !.log = Append(@, <<"Writing", victim>>),
                             !.numpgwriteback = @ + 1]
              ELSE S
        S2 == [S1 EXCEPT !.log = Append(@, <<"Replacing", victim, newpage, frame>>)]
        S3 == [S2 EXCEPT !.pgt[victim].present = 0]
    IN  [S3 EXCEPT !.pgt[newpage].present = 1,
                   !.pgt[newpage].frame = frame,
                   !.pgt[newpage].modified = 0,
                   !.frt[frame].page = newpage]

\* -------------------------------------------------------------- myrandom
\* r is the value rand() returns, 0..RAND_MAX
myrandom(from, size, r) ==
    LET n == ToUnsigned(from + (r * size) \div (RAND_MAX + 1))
    IN  IF n > ToUnsigned(from + size - 1) THEN ToUnsigned(from + size - 1)
        ELSE IF n < from THEN from
        ELSE n

\* ---------------------------------------------- choose_page_to_be_replaced
\* Each returns the system it leaves and the victim page.
\* choose_page_to_be_replaced that leaves listoccupied where it was
choose_page_to_be_replaced_fifo_no_advance(S) ==
    IF S.listoccupied \notin Frames(S)
    THEN [S |-> [S EXCEPT !.ub = TRUE], victim |-> -1]
    ELSE
    LET frame  == S.frt[S.listoccupied].next
        victim == S.frt[frame].page
    IN  [S |-> [S EXCEPT !.log = Append(@, <<"Choosing", victim, frame>>)],
         victim |-> victim]

choose_page_to_be_replaced_fifo(S) ==
    IF S.listoccupied \notin Frames(S)
    THEN [S |-> [S EXCEPT !.ub = TRUE], victim |-> -1]
    ELSE
    LET frame  == S.frt[S.listoccupied].next
        victim == S.frt[frame].page
    IN  [S |-> [S EXCEPT !.listoccupied = frame,
                         !.log = Append(@, <<"Choosing", victim, frame>>)],
         victim |-> victim]

\* the random choice that also moves listoccupied to the frame, as FIFO does
choose_page_to_be_replaced_random_moves_anchor(S, r) ==
    LET frame  == myrandom(0, S.numframes, r)
        victim == S.frt[frame].page
    IN  [S |-> [S EXCEPT !.listoccupied = frame,
                         !.log = Append(@, <<"Choosing", victim, frame>>)],
         victim |-> victim]

choose_page_to_be_replaced_random(S, r) ==
    LET frame  == myrandom(0, S.numframes, r)
        victim == S.frt[frame].page
    IN  [S |-> [S EXCEPT !.log = Append(@, <<"Choosing", victim, frame>>)],
         victim |-> victim]

\* the walk starting at the frame listoccupied points to, not at the next one
RECURSIVE walk_2ch_from_anchor(_, _)
walk_2ch_from_anchor(S, n) ==
    IF S.listoccupied \notin Frames(S)
    THEN [S |-> [S EXCEPT !.ub = TRUE], victim |-> -1, examined |-> n]
    ELSE
    LET frame == S.listoccupied
        page  == S.frt[frame].page
    IN  IF page \notin Pages(S)
        THEN [S |-> [S EXCEPT !.ub = TRUE], victim |-> -1, examined |-> n + 1]
        ELSE IF S.pgt[page].referenced = 1
        THEN walk_2ch_from_anchor([S EXCEPT !.pgt[page].referenced = 0,
                                            !.listoccupied = frame], n + 1)
        ELSE [S |-> [S EXCEPT !.log = Append(@, <<"Choosing", page, frame>>)],
              victim |-> page, examined |-> n + 1]

\* the walk that, after a pardon, moves listoccupied one frame too far
RECURSIVE walk_2ch_skips(_, _)
walk_2ch_skips(S, n) ==
    IF S.listoccupied \notin Frames(S)
    THEN [S |-> [S EXCEPT !.ub = TRUE], victim |-> -1, examined |-> n]
    ELSE
    LET frame == S.frt[S.listoccupied].next
        page  == S.frt[frame].page
    IN  IF page \notin Pages(S)
        THEN [S |-> [S EXCEPT !.ub = TRUE], victim |-> -1, examined |-> n + 1]
        ELSE IF S.pgt[page].referenced = 1
        THEN walk_2ch_skips([S EXCEPT !.pgt[page].referenced = 0,
                                      !.listoccupied = S.frt[frame].next],
                            n + 1)
        ELSE [S |-> [S EXCEPT !.log = Append(@, <<"Choosing", page, frame>>)],
              victim |-> page, examined |-> n + 1]

\* the walk without the second chance: the first frame examined is the victim
walk_2ch_no_second_chance(S, n) ==
    IF S.listoccupied \notin Frames(S)
    THEN [S |-> [S EXCEPT !.ub = TRUE], victim |-> -1, examined |-> n]
    ELSE
    LET frame == S.frt[S.listoccupied].next
        page  == S.frt[frame].page
    IN  IF page \notin Pages(S)
        THEN [S |-> [S EXCEPT !.ub = TRUE], victim |-> -1, examined |-> n + 1]
        ELSE [S |-> [S EXCEPT !.log = Append(@, <<"Choosing", page, frame>>)],
              victim |-> page, examined |-> n + 1]

\* the while (1) loop; n counts the frames examined so far
RECURSIVE walk_2ch(_, _)
walk_2ch(S, n) ==
    IF S.listoccupied \notin Frames(S)
    THEN [S |-> [S EXCEPT !.ub = TRUE], victim |-> -1, examined |-> n]
    ELSE
    LET frame == S.frt[S.listoccupied].next
        page  == S.frt[frame].page
    IN  IF page \notin Pages(S)
        THEN [S |-> [S EXCEPT !.ub = TRUE], victim |-> -1, examined |-> n + 1]
        ELSE IF S.pgt[page].referenced = 1
        THEN walk_2ch([S EXCEPT !.pgt[page].referenced = 0,
                                !.listoccupied = frame], n + 1)
        ELSE [S |-> [S EXCEPT !.log = Append(@, <<"Choosing", page, frame>>)],
              victim |-> page, examined |-> n + 1]

choose_page_to_be_replaced_2ch(S) ==
    LET w == walk_2ch(S, 0) IN [S |-> w.S, victim |-> w.victim]

\* the for loop over the frames, from frame i on, with the best frame so far
RECURSIVE scan_lru(_, _, _)
scan_lru(S, i, frame) ==
    IF i >= S.numframes THEN frame
    ELSE LET f0 == IF frame = -1 THEN i ELSE frame
         IN  IF S.pgt[S.frt[i].page].timestamp < S.pgt[S.frt[f0].page].timestamp
             THEN scan_lru(S, i + 1, i)
             ELSE scan_lru(S, i + 1, f0)

\* pgt[frt[i].page] with frt[i].page == -1 is undefined behaviour
choose_page_to_be_replaced_lru(S) ==
    IF \E i \in Frames(S) : S.frt[i].page \notin Pages(S)
    THEN [S |-> [S EXCEPT !.ub = TRUE], victim |-> -1]
    ELSE
    LET frame  == scan_lru(S, 0, -1)
        victim == S.frt[frame].page
    IN  [S |-> [S EXCEPT !.log = Append(@, <<"Choosing", victim, frame>>)],
         victim |-> victim]

choose_page_to_be_replaced(S, r) ==
    CASE S.variant = "FIFO"    -> choose_page_to_be_replaced_fifo(S)
      [] S.variant = "FIFO2CH" -> choose_page_to_be_replaced_2ch(S)
      [] S.variant = "RANDOM"  -> choose_page_to_be_replaced_random(S, r)
      [] OTHER                 -> choose_page_to_be_replaced_lru(S)

\* ------------------------------------------------------- handle_page_fault
\* handle_page_fault that empties the free list with the first frame it takes
handle_page_fault_drops_free(S, virtual_addr, r) ==
    LET page == ToInt(virtual_addr \div S.pagsz)
        S1   == [S EXCEPT !.numpagefaults = @ + 1,
                          !.log = Append(@, <<"PAGE_FAULT", page>>)]
    IN  IF S1.listfree # -1
        THEN LET last  == S1.listfree
                 frame == S1.frt[last].next
                 S2    == [S1 EXCEPT !.listfree = -1]
             IN  occupy_free_frame(S2, frame, page)
        ELSE LET c == choose_page_to_be_replaced(S1, r)
             IN  IF c.S.ub THEN c.S ELSE replace_page(c.S, c.victim, page)

\* handle_page_fault that does not count the fault
handle_page_fault_uncounted(S, virtual_addr, r) ==
    LET page == ToInt(virtual_addr \div S.pagsz)
        S1   == [S EXCEPT !.log = Append(@, <<"PAGE_FAULT", page>>)]
    IN  IF S1.listfree # -1
        THEN LET last  == S1.listfree
                 frame == S1.frt[last].next
                 S2    == IF frame = last
                          THEN [S1 EXCEPT !.listfree = -1]
                          ELSE [S1 EXCEPT !.frt[last].next = S1.frt[frame].next]
             IN  occupy_free_frame(S2, frame, page)
        ELSE LET c == choose_page_to_be_replaced(S1, r)
             IN  IF c.S.ub THEN c.S ELSE replace_page(c.S, c.victim, page)

\* handle_page_fault without the case of the last free frame: listfree is
\* never set to -1
handle_page_fault_never_empties(S, virtual_addr, r) ==
    LET page == ToInt(virtual_addr \div S.pagsz)
        S1   == [S EXCEPT !.numpagefaults = @ + 1,
                          !.log = Append(@, <<"PAGE_FAULT", page>>)]
    IN  IF S1.listfree # -1
        THEN LET last  == S1.listfree
                 frame == S1.frt[last].next
                 S2    == [S1 EXCEPT !.frt[last].next = S1.frt[frame].next]
             IN  occupy_free_frame(S2, frame, page)
        ELSE LET c == choose_page_to_be_replaced(S1, r)
             IN  IF c.S.ub THEN c.S ELSE replace_page(c.S, c.victim, page)

handle_page_fault(S, virtual_addr, r) ==
    LET page == ToInt(virtual_addr \div S.pagsz)
        S1   == [S EXCEPT !.numpagefaults = @ + 1,
                          !.log = Append(@, <<"PAGE_FAULT", page>>)]
    IN  IF S1.listfree # -1
        THEN LET last  == S1.listfree
                 frame == S1.frt[last].next
                 S2    == IF frame = last
                          THEN [S1 EXCEPT !.listfree = -1]
                          ELSE [S1 EXCEPT !.frt[last].next = S1.frt[frame].next]
             IN  occupy_free_frame(S2, frame, page)
        ELSE LET c == choose_page_to_be_replaced(S1, r)
             IN  IF c.S.ub THEN c.S ELSE replace_page(c.S, c.victim, page)

\* ----------------------------------------------------------------- sim_mmu
\* sim_mmu that lets an illegal reference touch the read counter as well
sim_mmu_illegal_read(S, virtual_addr, op, r) ==
    LET page   == ToInt(virtual_addr \div S.pagsz)
        offset == ToInt(virtual_addr % S.pagsz)
    IN  IF page < 0 \/ page >= S.numpags
        THEN [S |-> [S EXCEPT !.numillegalrefs = @ + 1,
                              !.numrefsread = IF op = "R" THEN @ + 1 ELSE @],
              ret |-> NoAddr]
        ELSE
        LET S1 == IF S.pgt[page].present = 0
                  THEN handle_page_fault(S, virtual_addr, r)
                  ELSE S
        IN  IF S1.ub THEN [S |-> S1, ret |-> NoAddr]
            ELSE
            LET frame == S1.pgt[page].frame
                physical_addr == ToUnsigned(frame * S1.pagsz + offset)
                S2 == reference_page(S1, page, op)
            IN  [S |-> [S2 EXCEPT !.log = Append(@,
                            <<"ref", op, virtual_addr, page, frame, offset>>)],
                 ret |-> physical_addr]

\* Returns the system it leaves and the physical address.
sim_mmu(S, virtual_addr, op, r) ==
    LET page   == ToInt(virtual_addr \div S.pagsz)
        offset == ToInt(virtual_addr % S.pagsz)
    IN  IF page < 0 \/ page >= S.numpags
        THEN [S |-> [S EXCEPT !.numillegalrefs = @ + 1], ret |-> NoAddr]
        ELSE
        LET S1 == IF S.pgt[page].present = 0
                  THEN handle_page_fault(S, virtual_addr, r)
                  ELSE S
        IN  IF S1.ub THEN [S |-> S1, ret |-> NoAddr]
            ELSE
            LET frame == S1.pgt[page].frame
                physical_addr == ToUnsigned(frame * S1.pagsz + offset)
                S2 == reference_page(S1, page, op)
            IN  [S |-> [S2 EXCEPT !.log = Append(@,
                            <<"ref", op, virtual_addr, page, frame, offset>>)],
                 ret |-> physical_addr]

\* ------------------------------------------------------------ the machine
\* S     the ssystem structure
\* call  the call that produced this state: init_tables, or sim_mmu with its
\*       arguments
\* ret   what sim_mmu returned (-1 after init_tables)
\* hist  history of the run, for the properties only: the pages of the legal
\*       references since init_tables (trace), the resident pages in
\*       the order they were loaded (loadord) and in the order of their last
\*       reference (reford), the resident pages written since they were loaded
\*       (wsince) and the pages ever written (everw), whether the clock has
\*       wrapped (wrapped), the evictions since init_tables (nevict), the page
\*       the last call evicted (victim, -1 if none) and whether it had been
\*       written since it was loaded (vdirty), and whether init_tables was
\*       called again (reinit)
VARIABLES S, call, ret, hist
vars == <<S, call, ret, hist>>

\* The structure as the caller allocates it, before init_tables: the counters
\* are zero.
Blank(v, nf, np, ps) ==
    [variant |-> v, numframes |-> nf, numpags |-> np, pagsz |-> ps,
     pgt |-> [p \in 0 .. np - 1 |-> ZeroPage],
     frt |-> [f \in 0 .. nf - 1 |-> [page |-> -1, next |-> 0]],
     listfree |-> -1, listoccupied |-> -1, clock |-> 0,
     numrefsread |-> 0, numrefswrite |-> 0, numpagefaults |-> 0,
     numpgwriteback |-> 0, numillegalrefs |-> 0,
     log |-> << >>, ub |-> FALSE]

NoHist(again) ==
    [trace |-> << >>, loadord |-> << >>, reford |-> << >>,
     wsince |-> {}, everw |-> {},
     wrapped |-> FALSE, nevict |-> 0, victim |-> -1, vdirty |-> FALSE,
     reinit |-> again]

InitCall == [fn |-> "init_tables", va |-> 0, op |-> "-"]

Init ==
    /\ \E v \in Variants, nf \in 1 .. MaxFrames :
       \E c \in Configs(nf) :
           S = init_tables(Blank(v, nf, c.numpags, c.pagsz))
    /\ call = InitCall
    /\ ret = -1
    /\ hist = NoHist(FALSE)

NumCalls == S.numillegalrefs + S.numrefsread + S.numrefswrite

\* init_tables called again, once, on a system in use
InitTables ==
    /\ ~S.ub
    /\ ~hist.reinit
    /\ NumCalls > 0
    /\ S' = init_tables(S)
    /\ call' = InitCall
    /\ ret' = -1
    /\ hist' = NoHist(TRUE)

\* The addresses tried: one address in every page (page p at offset
\* p % pagsz), the first address after the last page and, with pagsz 1, the
\* largest address (its page number is negative as an int).
VAddrs ==
    {p * S.pagsz + (p % S.pagsz) : p \in 0 .. S.numpags - 1}
        \cup {S.numpags * S.pagsz}
        \cup (IF S.pagsz = 1 THEN {UMax - 1} ELSE {})

PageOf(va) == ToInt(va \div S.pagsz)

\* rand() is called by the random policy only, when it has to choose a victim
RandDraws(va) ==
    IF /\ S.variant = "RANDOM" /\ S.listfree = -1
       /\ PageOf(va) \in Pages(S) /\ S.pgt[PageOf(va)].present = 0
    THEN 0 .. RAND_MAX ELSE {0}
Without(seq, ps) == SelectSeq(seq, LAMBDA p : p \notin ps)

\* the pages present in S and absent in T
EvictedBy(T) ==
    {p \in Pages(S) : S.pgt[p].present = 1 /\ T.pgt[p].present = 0}

\* the history after a legal sim_mmu(va, op) that evicted the pages in
\* evicted and left the clock at clk
NextHist(page, op, evicted, clk) ==
    LET fault == S.pgt[page].present = 0
    IN  [hist EXCEPT
           !.trace   = Append(@, page),
           !.loadord = IF fault THEN Append(Without(@, evicted), page) ELSE @,
           !.reford  = Append(Without(@, evicted \cup {page}), page),
           !.wsince  = ((@ \ evicted) \ (IF fault THEN {page} ELSE {}))
                         \cup (IF op = "W" THEN {page} ELSE {}),
           !.everw   = @ \cup (IF op = "W" THEN {page} ELSE {}),
           !.wrapped = @ \/ clk < S.clock,
           !.nevict  = @ + Cardinality(evicted),
           !.victim  = IF evicted = {} THEN -1 ELSE CHOOSE p \in evicted : TRUE,
           !.vdirty  = evicted \cap hist.wsince # {}]

SimMmu ==
    /\ ~S.ub
    /\ NumCalls < MaxCalls
    /\ \E va \in VAddrs, op \in Ops :
       \E r \in RandDraws(va) :
       \E res \in {sim_mmu([S EXCEPT !.log = << >>], va, op, r)} :
         /\ S' = res.S
         /\ ret' = res.ret
         /\ call' = [fn |-> "sim_mmu", va |-> va, op |-> op]
         /\ IF PageOf(va) \in Pages(S) /\ ~res.S.ub
            THEN \E evicted \in {EvictedBy(res.S)} :
                    hist' = NextHist(PageOf(va), op, evicted, res.S.clock)
            ELSE hist' = [hist EXCEPT !.victim = -1, !.vdirty = FALSE]

\* One run of the simulator: init_tables, then the references of the trace.
Next == SimMmu

Spec == Init /\ [][Next]_vars

\* A run in which the caller initialises the tables a second time.
NextReinit == SimMmu \/ InitTables

SpecReinit == Init /\ [][NextReinit]_vars

\* ------------------------------------------------- vocabulary of the claims
\* the step is a sim_mmu call on a legal / illegal address, a hit, a fault
StepPage    == PageOf(call'.va)
StepCall    == call'.fn = "sim_mmu"
StepLegal   == StepCall /\ StepPage \in Pages(S)
StepIllegal == StepCall /\ StepPage \notin Pages(S)
StepHit     == StepLegal /\ S.pgt[StepPage].present = 1
StepFault   == StepLegal /\ S.pgt[StepPage].present = 0
\* the pages the step evicts
Evicted     == {p \in Pages(S) : S.pgt[p].present = 1 /\ S'.pgt[p].present = 0}

Present(T)  == {p \in Pages(T) : T.pgt[p].present = 1}
Occupied(T) == {f \in Frames(T) : T.frt[f].page # -1}

\* the lines of the detailed trace that start with name
Events(log, name) == {i \in 1 .. Len(log) : log[i][1] = name}

\* the frame k steps of next after frame f
RECURSIVE Iter(_, _, _)
Iter(T, f, k) == IF k = 0 THEN f ELSE Iter(T, T.frt[f].next, k - 1)

\* the frames reachable from the anchor a by following next
RingOf(T, a) ==
    IF a = -1 THEN {} ELSE {Iter(T, a, k) : k \in 1 .. T.numframes}

\* following next from the anchor comes back to it after visiting every
\* frame of the ring once
ClosedCycle(T, a) ==
    a = -1 \/ (a \in Frames(T) /\ Iter(T, a, Cardinality(RingOf(T, a))) = a)

\* the pages of the occupied ring, from its head (the frame after the anchor)
RingPages(T) ==
    [k \in 1 .. Cardinality(RingOf(T, T.listoccupied)) |->
        T.frt[Iter(T, T.listoccupied, k)].page]

\* ----------------------------------------------------------------- claims

\* C1: in every variant, after init_tables and after every sim_mmu call,
\* every present page p is the page of its frame (frt[pgt[p].frame].page = p)
\* and every frame f that holds a page holds a present page whose frame is f.
C1_CrossConsistency ==
    /\ \A p \in Pages(S) :
          S.pgt[p].present = 1 =>
             /\ S.pgt[p].frame \in Frames(S)
             /\ S.frt[S.pgt[p].frame].page = p
    /\ \A f \in Frames(S) :
          S.frt[f].page # -1 =>
             /\ S.frt[f].page \in Pages(S)
             /\ S.pgt[S.frt[f].page].present = 1
             /\ S.pgt[S.frt[f].page].frame = f

\* a replacement has happened: a frame holds its second page, the evicted page
\* still names that frame
C1_Witness ==
    /\ hist.victim # -1
    /\ S.pgt[hist.victim].present = 0
    /\ S.frt[S.pgt[hist.victim].frame].page # hist.victim
    /\ Cardinality(Present(S)) >= 2

\* C2: in the FIFO and second-chance variants, after init_tables and after
\* every sim_mmu call, the frames reachable from listfree and those reachable
\* from listoccupied are disjoint, each set is one closed cycle, together they
\* are all the frames, free-ring frames hold no page and occupied-ring frames
\* hold one.
C2_RingPartition ==
    S.variant \in {"FIFO", "FIFO2CH"} =>
       LET free == RingOf(S, S.listfree)
           occ  == RingOf(S, S.listoccupied)
       IN  /\ free \cap occ = {}
           /\ free \cup occ = Frames(S)
           /\ ClosedCycle(S, S.listfree)
           /\ ClosedCycle(S, S.listoccupied)
           /\ \A f \in free : S.frt[f].page = -1
           /\ \A f \in occ : S.frt[f].page # -1

\* both rings are in use, the occupied one with two frames
C2_Witness ==
    /\ S.variant \in {"FIFO", "FIFO2CH"}
    /\ S.listfree # -1
    /\ Cardinality(RingOf(S, S.listoccupied)) = 2

\* C3: in the FIFO variant every eviction removes the resident page that was
\* loaded first; the pages of the occupied ring, read from its head, are the
\* resident pages in the order they were loaded, so a hit changes nothing of
\* that order.  With 3 frames and the page trace 0, 1, 2, 3 from the initial
\* state, pages 0, 1, 2 fill the free frames and the fault on page 3 evicts
\* page 0 and keeps 1 and 2.
C3_FifoStep ==
    (S.variant = "FIFO" /\ StepLegal) =>
       /\ RingPages(S) = hist.loadord
       /\ RingPages(S') = hist'.loadord
       /\ StepHit => RingPages(S') = RingPages(S) /\ Evicted = {}
       /\ Evicted # {} => Evicted = {Head(hist.loadord)}
       /\ (S.numframes = 3 /\ hist.trace = <<0, 1, 2>> /\ StepPage = 3)
          => /\ hist.nevict = 0 /\ Present(S) = {0, 1, 2}
             /\ Occupied(S) = Frames(S)
             /\ Evicted = {0}
             /\ Present(S') = {1, 2, 3}

C3_FifoOrder == [][C3_FifoStep]_vars

\* the trace 0, 1, 2, 3 on three frames has run
C3_Witness ==
    /\ S.variant = "FIFO" /\ S.numframes = 3
    /\ hist.trace = <<0, 1, 2, 3>>
    /\ hist.loadord = <<1, 2, 3>> /\ hist.victim = 0

\* C4: in the LRU variant, while the clock has not wrapped, every eviction
\* removes the resident page with the smallest timestamp, the lowest frame
\* winning on equal timestamps, and that page is the resident page whose last
\* reference is the oldest.  With 2 frames and the page trace 0, 1, 0, 2 from
\* the initial state, the fault on page 2 evicts page 1.
C4_LruStep ==
    (S.variant = "LRU" /\ StepLegal /\ ~hist.wrapped) =>
       /\ Evicted # {} =>
            LET ts(f) == S.pgt[S.frt[f].page].timestamp
                least == {f \in Frames(S) : \A g \in Frames(S) : ts(f) <= ts(g)}
                first == CHOOSE f \in least : \A g \in least : f <= g
            IN  /\ Evicted = {S.frt[first].page}
                /\ Evicted = {Head(hist.reford)}
       /\ (S.numframes = 2 /\ hist.trace = <<0, 1, 0>> /\ StepPage = 2)
          => Evicted = {1} /\ Present(S') = {0, 2}

C4_LruOrder == [][C4_LruStep]_vars

\* the trace 0, 1, 0, 2 on two frames has run; the clock had counted three
\* references when the victim was chosen
C4_Witness ==
    /\ S.variant = "LRU" /\ S.numframes = 2
    /\ hist.trace = <<0, 1, 0, 2>> /\ Len(hist.trace) <= ClockMod
    /\ hist.victim = 1 /\ S.pgt[0].present = 1

\* C5 as the specification states it: in the second-chance variant with 2
\* frames and the page trace 0, 1, 0, 2 from the initial state, the fault on
\* page 2 evicts page 1 and page 0 stays resident.
C5_OriginalStep ==
    (/\ S.variant = "FIFO2CH" /\ S.numframes = 2 /\ StepLegal
     /\ hist.trace = <<0, 1, 0>> /\ StepPage = 2)
    => Evicted = {1} /\ S'.pgt[0].present = 1

C5_Original == [][C5_OriginalStep]_vars

\* C5 (amended): in the second-chance variant with 2 frames and the page
\* trace 0, 1, 0, 2 from the initial state, pages 0 and 1 both have their
\* referenced bit set at the fault on page 2 (a page is referenced when it is
\* loaded); the walk pardons both and evicts page 0, the first loaded; page 1
\* stays resident with its bit cleared.
C5_SecondChanceStep ==
    (/\ S.variant = "FIFO2CH" /\ S.numframes = 2 /\ StepLegal
     /\ hist.trace = <<0, 1, 0>> /\ StepPage = 2)
    => /\ S.pgt[0].referenced = 1 /\ S.pgt[1].referenced = 1
       /\ Evicted = {0}
       /\ Present(S') = {1, 2}
       /\ S'.pgt[1].referenced = 0

C5_SecondChance == [][C5_SecondChanceStep]_vars

\* the trace 0, 1, 0, 2 on two frames has run
C5_Witness ==
    /\ S.variant = "FIFO2CH" /\ S.numframes = 2
    /\ hist.trace = <<0, 1, 0, 2>>
    /\ hist.victim = 0 /\ S.pgt[1].present = 1

\* C6: in every variant numpgwriteback grows by exactly 1 in a step that
\* evicts a page written since it was last loaded, and does not change in any
\* other step (an eviction of a page not written during its current stay, a
\* hit, a load into a free frame, an illegal reference).
C6_WriteBackStep ==
    S'.numpgwriteback = S.numpgwriteback +
        (IF StepLegal /\ Evicted \cap hist.wsince # {} THEN 1 ELSE 0)

C6_WriteBack == [][C6_WriteBackStep]_vars

\* a page written during an earlier stay, and not since, has been evicted
C6_Witness ==
    /\ hist.victim # -1
    /\ hist.victim \in hist.everw
    /\ ~hist.vdirty
    /\ S.numpgwriteback >= 1

\* C7: in every variant a sim_mmu call whose page number is negative or
\* >= numpags returns ~0U, adds 1 to numillegalrefs and changes nothing else
\* of the system.
C7_IllegalStep ==
    StepIllegal =>
       /\ ret' = NoAddr
       /\ [S' EXCEPT !.log = << >>] =
             [S EXCEPT !.numillegalrefs = @ + 1, !.log = << >>]

C7_Illegal == [][C7_IllegalStep]_vars

\* an address whose page number is negative was refused on a system with a
\* resident, modified page
C7_Witness ==
    /\ call.fn = "sim_mmu" /\ PageOf(call.va) < 0
    /\ ret = NoAddr /\ S.numillegalrefs = 1
    /\ \E p \in Present(S) : S.pgt[p].modified = 1

\* C8: in every variant, after a sim_mmu call on a legal address the page is
\* present in a frame of the machine that holds it, and the call returned
\* frame * pagsz + offset, which is below numframes * pagsz and has the
\* offset of the virtual address.
C8_Translation ==
    (call.fn = "sim_mmu" /\ PageOf(call.va) \in Pages(S)) =>
       LET page  == PageOf(call.va)
           frame == S.pgt[page].frame
       IN  /\ ~S.ub
           /\ S.pgt[page].present = 1
           /\ frame \in Frames(S)
           /\ S.frt[frame].page = page
           /\ ret = frame * S.pagsz + (call.va % S.pagsz)
           /\ ret < S.numframes * S.pagsz
           /\ ret % S.pagsz = call.va % S.pagsz

\* a reference at offset 1 replaced a page in a frame other than frame 0
C8_Witness ==
    /\ call.fn = "sim_mmu" /\ PageOf(call.va) \in Pages(S)
    /\ call.va % S.pagsz = 1
    /\ hist.victim # -1
    /\ S.pgt[PageOf(call.va)].frame >= 1
    /\ ret = S.pgt[PageOf(call.va)].frame * S.pagsz + 1

\* C9: in every variant a page fault takes a free frame whenever listfree is
\* not -1, and that frame holds no page; a victim is chosen only when every
\* frame holds a page, and the victim chosen is a present page (never -1), the
\* page of the frame chosen.
C9_FaultStep ==
    StepFault =>
       LET stored == Events(S'.log, "Storing")
           chosen == Events(S'.log, "Choosing")
       IN  /\ ~S'.ub
           /\ (S.listfree # -1) <=> (Occupied(S) # Frames(S))
           /\ S.listfree # -1 =>
                 /\ chosen = {} /\ stored # {}
                 /\ \A i \in stored : S.frt[S'.log[i][3]].page = -1
           /\ S.listfree = -1 => chosen # {} /\ stored = {}
           /\ \A i \in chosen :
                 /\ Occupied(S) = Frames(S)
                 /\ S'.log[i][2] \in Pages(S)
                 /\ S.pgt[S'.log[i][2]].present = 1
                 /\ S.frt[S'.log[i][3]].page = S'.log[i][2]
                 /\ Evicted = {S'.log[i][2]}

C9_Fault == [][C9_FaultStep]_vars

\* the random policy drew a frame other than frame 0
C9_Witness ==
    /\ S.variant = "RANDOM"
    /\ \E i \in Events(S.log, "Choosing") :
          S.log[i][3] >= 1 /\ hist.victim = S.log[i][2]

\* C10: in every variant a hit leaves numpagefaults, every present bit, every
\* frame field of the page table, the frame table and both anchors unchanged;
\* a fault adds 1 to numpagefaults, makes the referenced page present and
\* makes at most one other page absent, and only when no frame was free; an
\* illegal reference changes no present bit.
C10_PresenceStep ==
    /\ StepHit =>
          /\ S'.numpagefaults = S.numpagefaults
          /\ \A p \in Pages(S) :
                /\ S'.pgt[p].present = S.pgt[p].present
                /\ S'.pgt[p].frame = S.pgt[p].frame
          /\ S'.frt = S.frt
          /\ S'.listfree = S.listfree
          /\ S'.listoccupied = S.listoccupied
    /\ StepFault =>
          /\ S'.numpagefaults = S.numpagefaults + 1
          /\ S'.pgt[StepPage].present = 1
          /\ Cardinality(Evicted) <= 1
          /\ Evicted # {} => S.listfree = -1 /\ Occupied(S) = Frames(S)
          /\ Occupied(S) = Frames(S) => Evicted # {}
          /\ \A p \in Pages(S) \ ({StepPage} \cup Evicted) :
                S'.pgt[p].present = S.pgt[p].present
    /\ StepIllegal =>
          \A p \in Pages(S) : S'.pgt[p].present = S.pgt[p].present

C10_Presence == [][C10_PresenceStep]_vars

\* a hit on a written page after a replacement
C10_Witness ==
    /\ call.fn = "sim_mmu" /\ PageOf(call.va) \in Pages(S)
    /\ Events(S.log, "PAGE_FAULT") = {}
    /\ hist.nevict >= 1
    /\ hist.victim = -1

\* C11: in the Random and LRU variants, after every sim_mmu call every frame
\* that holds a page is reachable from listoccupied, every frame belongs to
\* exactly one of the two rings, and the sizes of the free and the occupied
\* ring add up to numframes (occupy_free_frame links the frame it is given
\* into the occupied ring).
C11_OccupiedRingLinked ==
    (S.variant \in {"RANDOM", "LRU"} /\ ~S.ub) =>
       LET free == RingOf(S, S.listfree)
           occ  == RingOf(S, S.listoccupied)
       IN  /\ Occupied(S) \subseteq occ
           /\ free \cap occ = {}
           /\ free \cup occ = Frames(S)
           /\ Cardinality(free) + Cardinality(occ) = S.numframes

\* the frames of the ring anchored at a, from its head (the frame after a)
RingSeq(T, a) ==
    [k \in 1 .. Cardinality(RingOf(T, a)) |-> Iter(T, a, k)]

\* C12: in every variant, init_tables called first or again after any
\* sequence of sim_mmu calls leaves every page absent, unmodified,
\* unreferenced and with timestamp 0, every frame without a page, the free
\* ring holding all the frames in the order 0, 1, ..., numframes-1 with
\* listfree = numframes-1, and the occupied ring empty.
C12_InitTables ==
    call.fn = "init_tables" =>
       /\ \A p \in Pages(S) :
             /\ S.pgt[p].present = 0 /\ S.pgt[p].modified = 0
             /\ S.pgt[p].referenced = 0 /\ S.pgt[p].timestamp = 0
       /\ \A f \in Frames(S) : S.frt[f].page = -1
       /\ S.listfree = S.numframes - 1
       /\ RingSeq(S, S.listfree) = [k \in 1 .. S.numframes |-> k - 1]
       /\ S.listoccupied = -1

\* init_tables was called again on a system that had replaced a written page
C12_Witness ==
    /\ call.fn = "init_tables" /\ hist.reinit
    /\ S.numpgwriteback >= 1
    /\ S.numframes >= 2

\* the step is a fault of the second-chance variant with no free frame: it
\* calls choose_page_to_be_replaced, whose walk reads frt, listoccupied and
\* the referenced bits as they are in S
StepWalk == S.variant = "FIFO2CH" /\ StepFault /\ S.listfree = -1

\* C14: in the second-chance variant, whenever choose_page_to_be_replaced is
\* called with all frames occupied, its walk ends after examining at most
\* numframes + 1 frames; when every resident page has its referenced bit set
\* it examines exactly numframes + 1 frames: one sweep clears every bit and
\* the first frame revisited holds the victim.
C14_WalkStep ==
    StepWalk =>
       LET w    == walk_2ch(S, 0)
           head == S.frt[S.listoccupied].next
       IN  /\ Occupied(S) = Frames(S)
           /\ ~w.S.ub
           /\ w.examined >= 1 /\ w.examined <= S.numframes + 1
           /\ Evicted = {w.victim}
           /\ (\A p \in Present(S) : S.pgt[p].referenced = 1) =>
                 /\ w.examined = S.numframes + 1
                 /\ w.victim = S.frt[head].page
                 /\ \A p \in Present(S) : w.S.pgt[p].referenced = 0
                 /\ w.S.listoccupied = S.listoccupied

C14_WalkTerminates == [][C14_WalkStep]_vars

\* a walk over three frames that all had the bit set has chosen its victim
C14_Witness ==
    /\ S.variant = "FIFO2CH" /\ S.numframes = 3
    /\ hist.victim = 0 /\ hist.trace = <<0, 1, 2, 3>>
    /\ \A p \in {1, 2} : S.pgt[p].referenced = 0

\* ------------------------------------------- longer runs of second chance
\* Runs of the second-chance variant that are long enough for a walk to meet
\* set bits after the victim: reads of the first byte of legal pages only
\* (the walk reads neither the modified bits nor the counters).
MaxWalkCalls == 6

InitWalk ==
    /\ \E nf \in 1 .. MaxFrames :
           S = init_tables(Blank("FIFO2CH", nf, nf + 1, 2))
    /\ call = InitCall
    /\ ret = -1
    /\ hist = NoHist(FALSE)

ReadPage ==
    /\ ~S.ub
    /\ NumCalls < MaxWalkCalls
    /\ \E p \in Pages(S) :
       \E res \in {sim_mmu([S EXCEPT !.log = << >>], p * S.pagsz, "R", 0)} :
         /\ S' = res.S
         /\ ret' = res.ret
         /\ call' = [fn |-> "sim_mmu", va |-> p * S.pagsz, op |-> "R"]
         /\ IF ~res.S.ub
            THEN \E evicted \in {EvictedBy(res.S)} :
                    hist' = NextHist(p, "R", evicted, res.S.clock)
            ELSE hist' = [hist EXCEPT !.victim = -1, !.vdirty = FALSE]

NextWalk == ReadPage

SpecWalk == InitWalk /\ [][NextWalk]_vars

\* C15: in the second-chance variant the walk of choose_page_to_be_replaced
\* starts at frt[listoccupied].next; every frame examined whose page has
\* referenced set gets the bit cleared and becomes listoccupied; the victim is
\* the first frame found with referenced clear.  So when some resident page
\* has referenced clear at the call, the victim is the first such page in ring
\* order, the pages before it end with referenced clear, the pages after it
\* keep their bits, and listoccupied ends at the frame before the victim's.
C15_WalkStep ==
    (StepWalk /\ \E p \in Present(S) : S.pgt[p].referenced = 0) =>
       LET ring  == RingSeq(S, S.listoccupied)
           pg(k) == S.frt[ring[k]].page
           clear == {k \in 1 .. Len(ring) : S.pgt[pg(k)].referenced = 0}
           first == CHOOSE k \in clear : \A j \in clear : k <= j
           w     == walk_2ch(S, 0)
       IN  /\ Len(ring) = S.numframes
           /\ w.victim = pg(first)
           /\ w.examined = first
           /\ \A j \in 1 .. first - 1 : w.S.pgt[pg(j)].referenced = 0
           /\ \A j \in first + 1 .. Len(ring) :
                 w.S.pgt[pg(j)].referenced = S.pgt[pg(j)].referenced
           /\ w.S.listoccupied =
                 (IF first = 1 THEN S.listoccupied ELSE ring[first - 1])
           /\ [w.S EXCEPT !.pgt = S.pgt, !.listoccupied = S.listoccupied,
                          !.log = S.log] = S
           /\ Evicted = {w.victim}
           /\ S'.listoccupied = w.S.listoccupied
           /\ \A p \in Pages(S) \ {StepPage} :
                 S'.pgt[p].referenced = w.S.pgt[p].referenced

C15_WalkOrder == [][C15_WalkStep]_vars

\* a walk on three frames has pardoned the first page, evicted the second and
\* left the third with its bit set
C15_Witness ==
    /\ S.variant = "FIFO2CH" /\ S.numframes = 3
    /\ hist.trace = <<0, 1, 2, 3, 2, 0>>
    /\ hist.victim = 1
    /\ S.pgt[3].referenced = 0 /\ S.pgt[2].referenced = 1
    /\ S.pgt[0].referenced = 1

\* the step is a fault that finds no free frame: it calls
\* choose_page_to_be_replaced on S (with one fault more counted)
StepChoose == StepFault /\ S.listfree = -1

\* C16: in every variant choose_page_to_be_replaced leaves the present, frame
\* and modified fields of every page, the page and next fields of every frame,
\* listfree and all the counters unchanged; it may change listoccupied (FIFO
\* and second chance) and referenced bits (second chance) only, and in the
\* Random and LRU variants it changes nothing of the system.
C16_ChooseStep ==
    StepChoose =>
       \A r \in 0 .. RAND_MAX :
          LET c == choose_page_to_be_replaced(S, r)
              T == [c.S EXCEPT !.log = S.log]
          IN  /\ ~T.ub
              /\ S.variant \in {"RANDOM", "LRU"} => T = S
              /\ S.variant = "FIFO" =>
                    [T EXCEPT !.listoccupied = S.listoccupied] = S
              /\ S.variant = "FIFO2CH" =>
                    /\ [T EXCEPT !.listoccupied = S.listoccupied,
                                 !.pgt = S.pgt] = S
                    /\ \A p \in Pages(S) :
                          [T.pgt[p] EXCEPT !.referenced = S.pgt[p].referenced]
                             = S.pgt[p]
              /\ S.variant # "RANDOM" =>
                    /\ Evicted = {c.victim}
                    /\ S'.listoccupied = T.listoccupied
              /\ Len(c.S.log) = Len(S.log) + 1

C16_ChooseFrame == [][C16_ChooseStep]_vars

\* FIFO chose a victim on a machine of several frames and moved listoccupied
\* to the victim's frame, which now holds the page referenced
C16_Witness ==
    /\ S.variant = "FIFO" /\ S.numframes >= 2
    /\ hist.nevict >= 1 /\ hist.victim # -1
    /\ S.listoccupied = S.pgt[PageOf(call.va)].frame

\* C17: in every variant replace_page(victim, newpage), called with victim
\* present and newpage absent, makes victim absent, makes newpage present in
\* the frame the victim held with modified = 0, makes newpage the page of that
\* frame, and leaves every next link, listoccupied, listfree and the entries
\* of all the other pages unchanged.
C17_ReplaceStep ==
    StepChoose =>
       LET pre     == choose_page_to_be_replaced(
                         [S EXCEPT !.numpagefaults = @ + 1], 0).S
           victim  == CHOOSE v \in Evicted : TRUE
           newpage == StepPage
           frame   == pre.pgt[victim].frame
           R       == replace_page(pre, victim, newpage)
       IN  /\ Evicted # {}
           /\ pre.pgt[victim].present = 1 /\ pre.pgt[newpage].present = 0
           /\ R.pgt[victim] = [pre.pgt[victim] EXCEPT !.present = 0]
           /\ R.pgt[newpage] = [pre.pgt[newpage] EXCEPT !.present = 1,
                                                        !.frame = frame,
                                                        !.modified = 0]
           /\ \A p \in Pages(S) \ {victim, newpage} : R.pgt[p] = pre.pgt[p]
           /\ R.frt[frame].page = newpage
           /\ \A f \in Frames(S) :
                 /\ R.frt[f].next = pre.frt[f].next
                 /\ f # frame => R.frt[f].page = pre.frt[f].page
           /\ R.listoccupied = pre.listoccupied
           /\ R.listfree = pre.listfree
           /\ [reference_page(R, newpage, call'.op) EXCEPT !.log = << >>]
                 = [S' EXCEPT !.log = << >>]

C17_Replace == [][C17_ReplaceStep]_vars

\* a page that was written during an earlier stay has been read back in by a
\* replacement, and is unmodified again
C17_Witness ==
    /\ call.fn = "sim_mmu" /\ call.op = "R"
    /\ hist.victim # -1
    /\ PageOf(call.va) \in hist.everw
    /\ S.pgt[PageOf(call.va)].present = 1
    /\ S.pgt[PageOf(call.va)].modified = 0
    /\ S.pgt[PageOf(call.va)].frame = S.pgt[hist.victim].frame

\* C18: in every variant a legal sim_mmu call does the reference accounting
\* once, after the fault is resolved: 'R' adds 1 to numrefsread and changes no
\* modified bit, 'W' adds 1 to numrefswrite and sets modified on the page
\* referenced only.  On every legal access the second-chance variant also
\* sets referenced on the page and the LRU variant sets the page's timestamp
\* to the clock and then adds 1 to the clock (an unsigned increment); FIFO
\* and Random change nothing else on a hit.
C18_AccountStep ==
    StepLegal =>
       \E r \in 0 .. RAND_MAX :
          LET page == StepPage
              op   == call'.op
              S0   == [S EXCEPT !.log = << >>]
              mid  == IF S.pgt[page].present = 0
                      THEN handle_page_fault(S0, call'.va, r) ELSE S0
              rd   == IF op = "R" THEN 1 ELSE 0
              wr   == IF op = "W" THEN 1 ELSE 0
              acct == [mid EXCEPT !.log = << >>,
                                  !.numrefsread = @ + rd,
                                  !.numrefswrite = @ + wr,
                                  !.pgt[page].modified =
                                      IF op = "W" THEN 1 ELSE @]
          IN  /\ S'.numrefsread = S.numrefsread + rd
              /\ S'.numrefswrite = S.numrefswrite + wr
              /\ \A p \in Pages(S) :
                    S'.pgt[p].modified =
                       (IF p = page /\ op = "W" THEN 1 ELSE mid.pgt[p].modified)
              /\ mid.clock = S.clock
              /\ [S' EXCEPT !.log = << >>] =
                    (CASE S.variant = "FIFO2CH" ->
                            [acct EXCEPT !.pgt[page].referenced = 1]
                       [] S.variant = "LRU" ->
                            [acct EXCEPT !.pgt[page].timestamp = S.clock,
                                         !.clock = (S.clock + 1) % ClockMod]
                       [] OTHER -> acct)

C18_Accounting == [][C18_AccountStep]_vars

\* the LRU variant has counted a write hit on a page after two other
\* references, next to a page that stays unmodified
C18_Witness ==
    /\ S.variant = "LRU" /\ call.fn = "sim_mmu" /\ call.op = "W"
    /\ Events(S.log, "PAGE_FAULT") = {}
    /\ S.numrefswrite = 1 /\ S.numrefsread = 2
    /\ S.pgt[PageOf(call.va)].timestamp = 2 /\ S.clock = 3
    /\ S.pgt[PageOf(call.va)].modified = 1
    /\ \E p \in Present(S) : S.pgt[p].modified = 0

\* ------------------------------------------------------ longer runs of LRU
\* Runs of the LRU variant that go on after the clock has wrapped: reads of
\* the first byte of legal pages, up to MaxWalkCalls of them.
InitLru ==
    /\ \E nf \in 1 .. MaxFrames :
           S = init_tables(Blank("LRU", nf, nf + 1, 2))
    /\ call = InitCall
    /\ ret = -1
    /\ hist = NoHist(FALSE)

SpecLru == InitLru /\ [][NextWalk]_vars

\* C19 as the specification states it: in the LRU variant the clock never
\* decreases over any sequence of sim_mmu calls, and a page referenced later
\* carries a timestamp greater than every page referenced earlier, also in
\* runs of more than 2^w legal references.
C19_OriginalStep ==
    S.variant = "LRU" =>
       /\ S'.clock >= S.clock
       /\ StepLegal =>
             \A p \in Pages(S) \ {StepPage} :
                (\E i \in 1 .. Len(hist.trace) : hist.trace[i] = p)
                   => S'.pgt[StepPage].timestamp > S'.pgt[p].timestamp

C19_Original == [][C19_OriginalStep]_vars

\* C19 (amended): in the LRU variant the clock is a w-bit unsigned counter
\* that a legal reference advances by 1 modulo 2^w and nothing else changes.
\* During the first 2^w legal references after init_tables the page
\* referenced is stamped with the number of references made before it, which
\* is greater than the timestamp of every page referenced earlier, and the
\* clock does not decrease before the 2^w-th of them; the 2^w-th reference
\* wraps the clock to 0, and the pages referenced after it are stamped from 0
\* again.
C19_ClockStep ==
    S.variant = "LRU" =>
       LET n == Len(hist.trace)
       IN  /\ S.clock = n % ClockMod
           /\ StepIllegal => S'.clock = S.clock
           /\ StepLegal =>
                 /\ S'.clock = (S.clock + 1) % ClockMod
                 /\ S'.pgt[StepPage].timestamp = n % ClockMod
                 /\ n + 1 < ClockMod => S'.clock > S.clock
                 /\ n + 1 = ClockMod => S'.clock = 0
                 /\ n < ClockMod =>
                       \A p \in Pages(S) \ {StepPage} :
                          (\E i \in 1 .. n : hist.trace[i] = p)
                             => S'.pgt[StepPage].timestamp
                                   > S'.pgt[p].timestamp

C19_Clock == [][C19_ClockStep]_vars

\* the reference after the wrap carries timestamp 0, below the timestamp of a
\* resident page referenced before it
C19_Witness ==
    /\ S.variant = "LRU"
    /\ Len(hist.trace) = ClockMod + 1
    /\ S.pgt[hist.trace[ClockMod + 1]].timestamp = 0
    /\ \E p \in Present(S) : S.pgt[p].timestamp = ClockMod - 1

\* C20: in every variant a frame that holds a page never becomes free again:
\* the number of frames holding a page, which is the number of present pages,
\* never decreases and never exceeds numframes; once listfree is -1 it stays
\* -1 for the rest of the run, every fault from then on is an eviction, and
\* every fault before that takes a free frame.
C20_FramesStep ==
    /\ \A f \in Frames(S) : S.frt[f].page # -1 => S'.frt[f].page # -1
    /\ Cardinality(Occupied(S')) >= Cardinality(Occupied(S))
    /\ Cardinality(Occupied(S')) = Cardinality(Present(S'))
    /\ Cardinality(Occupied(S')) <= S'.numframes
    /\ S.listfree = -1 => S'.listfree = -1
    /\ (StepFault /\ S.listfree = -1) =>
          /\ Evicted # {}
          /\ Events(S'.log, "Choosing") # {} /\ Events(S'.log, "Storing") = {}
          /\ Occupied(S') = Occupied(S)
    /\ (StepFault /\ S.listfree # -1) =>
          /\ Evicted = {}
          /\ Events(S'.log, "Storing") # {} /\ Events(S'.log, "Choosing") = {}
          /\ Cardinality(Occupied(S')) = Cardinality(Occupied(S)) + 1

C20_FramesStayOccupied == [][C20_FramesStep]_vars

\* two frames were filled and two evictions followed
C20_Witness ==
    /\ S.numframes = 2 /\ S.listfree = -1
    /\ hist.nevict = 2
    /\ Occupied(S) = Frames(S)
    /\ Len(hist.trace) = 4

\* C21: in every variant, from init_tables on, the free frames are handed out
\* in ascending order: the k-th page fault of the run, for k up to numframes,
\* loads its page into frame k-1 whatever page it is.
C21_AscendingStep ==
    (StepFault /\ S.numpagefaults < S.numframes) =>
       /\ S.listfree # -1
       /\ Cardinality(Occupied(S)) = S.numpagefaults
       /\ S.frt[S.numpagefaults].page = -1
       /\ S'.pgt[StepPage].frame = S.numpagefaults
       /\ S'.frt[S.numpagefaults].page = StepPage
       /\ \E i \in Events(S'.log, "Storing") :
             S'.log[i] = <<"Storing", StepPage, S.numpagefaults>>

C21_Ascending == [][C21_AscendingStep]_vars

\* three frames were filled by pages referenced in descending order
C21_Witness ==
    /\ S.numframes = 3 /\ hist.trace = <<3, 1, 0>>
    /\ S.pgt[3].frame = 0 /\ S.pgt[1].frame = 1 /\ S.pgt[0].frame = 2
    /\ S.listfree = -1

\* C22: in every variant, with the counters at 0 after init_tables and every
\* call using 'R' or 'W', after n sim_mmu calls numillegalrefs + numrefsread
\* + numrefswrite = n (every call adds exactly 1 to the sum, and the legal
\* ones are numrefsread + numrefswrite), numpagefaults <= numrefsread +
\* numrefswrite, numpagefaults = frames holding a page + evictions so far,
\* numpgwriteback <= evictions and numpgwriteback <= numrefswrite.
C22_CountersStep ==
    StepCall =>
       /\ S'.numillegalrefs + S'.numrefsread + S'.numrefswrite
             = S.numillegalrefs + S.numrefsread + S.numrefswrite + 1
       /\ S'.numrefsread + S'.numrefswrite = Len(hist'.trace)
       /\ S'.numillegalrefs =
             S.numillegalrefs + (IF StepIllegal THEN 1 ELSE 0)
       /\ S'.numpagefaults <= S'.numrefsread + S'.numrefswrite
       /\ S'.numpagefaults = Cardinality(Occupied(S')) + hist'.nevict
       /\ S'.numpgwriteback <= hist'.nevict
       /\ S'.numpgwriteback <= S'.numrefswrite

C22_Counters == [][C22_CountersStep]_vars

\* an illegal call, a read and a write were counted, and one of two evictions
\* wrote its page back
C22_Witness ==
    /\ S.numillegalrefs = 1 /\ S.numrefsread >= 1 /\ S.numrefswrite = 1
    /\ hist.nevict = 2 /\ S.numpgwriteback = 1
    /\ S.numpagefaults = 3

\* C23: in the LRU variant, as long as the clock has not wrapped, after every
\* sim_mmu call the present pages have pairwise distinct timestamps, each
\* below the clock, and the page of the last legal call holds the largest
\* one, clock - 1; so the scan of choose_page_to_be_replaced meets no two
\* resident pages with equal timestamps.
C23_DistinctTimestamps ==
    (S.variant = "LRU" /\ ~hist.wrapped) =>
       /\ \A p, q \in Present(S) :
             p # q => S.pgt[p].timestamp # S.pgt[q].timestamp
       /\ \A p \in Present(S) : S.pgt[p].timestamp < S.clock
       /\ hist.trace # << >> =>
             LET last == hist.trace[Len(hist.trace)]
             IN  /\ last \in Present(S)
                 /\ S.pgt[last].timestamp = S.clock - 1
       /\ S.listfree = -1 =>
             \A f, g \in Frames(S) :
                f # g => S.pgt[S.frt[f].page].timestamp
                            # S.pgt[S.frt[g].page].timestamp

\* two resident pages after a replacement and three references, the clock not
\* yet wrapped
C23_Witness ==
    /\ S.variant = "LRU" /\ S.numframes = 2 /\ ~hist.wrapped
    /\ hist.trace = <<0, 1, 2>> /\ Present(S) = {1, 2}
    /\ S.pgt[1].timestamp = 1 /\ S.pgt[2].timestamp = 2 /\ S.clock = 3

\* ------------------------------------- second chance and FIFO side by side
\* The second-chance simulator (S) and the FIFO simulator (hist.twin) run
\* from init_tables with the same numframes, numpags and pagsz and receive
\* the same references (first byte of a legal page, read or write).  The run
\* goes on while every access so far was a page fault; the access of a step
\* may be a hit, which ends the run.
MaxPairCalls == 5

InitPair ==
    /\ \E nf \in 1 .. MaxFrames :
          /\ S = init_tables(Blank("FIFO2CH", nf, nf + 2, 2))
          /\ hist = NoHist(FALSE)
                       @@ ("twin" :> init_tables(Blank("FIFO", nf, nf + 2, 2)))
    /\ call = InitCall
    /\ ret = -1

AccessPair ==
    /\ ~S.ub
    /\ NumCalls < MaxPairCalls
    /\ S.numpagefaults = NumCalls
    /\ \E p \in Pages(S), op \in {"R", "W"} :
       \E res \in {sim_mmu([S EXCEPT !.log = << >>], p * S.pagsz, op, 0)},
          two \in {sim_mmu([hist.twin EXCEPT !.log = << >>], p * S.pagsz, op, 0)} :
         /\ S' = res.S
         /\ ret' = res.ret
         /\ call' = [fn |-> "sim_mmu", va |-> p * S.pagsz, op |-> op]
         /\ IF ~res.S.ub
            THEN \E evicted \in {EvictedBy(res.S)} :
                    hist' = [NextHist(p, op, evicted, res.S.clock)
                                EXCEPT !.twin = two.S]
            ELSE hist' = [hist EXCEPT !.victim = -1, !.vdirty = FALSE,
                                      !.twin = two.S]

NextPair == AccessPair

SpecPair == InitPair /\ [][NextPair]_vars

\* the (victim, new page, frame) triples of the replacements a call logged
Replaced(log) == {Tail(log[i]) : i \in Events(log, "Replacing")}

\* C24: on a trace of legal references in which every access is a page fault,
\* second chance and FIFO, started by init_tables with the same configuration,
\* evict the same page from the same frame at every replacement and end every
\* step with the same present, frame and modified fields of the page table,
\* the same frame table and the same numpagefaults and numpgwriteback; FIFO
\* leaves listoccupied at the victim's frame, second chance (with more than
\* one frame) does not.
C24_PairStep ==
    (StepFault /\ S.numpagefaults = NumCalls) =>
       LET F  == hist.twin
           F2 == hist'.twin
       IN  /\ S.variant = "FIFO2CH" /\ F.variant = "FIFO"
           /\ F.pgt[StepPage].present = 0
           /\ (S.listfree = -1) = (F.listfree = -1)
           /\ S.listfree = -1 =>
                 /\ Cardinality(Replaced(S'.log)) = 1
                 /\ Replaced(S'.log) = Replaced(F2.log)
                 /\ \E v \in Evicted :
                       /\ Evicted = {v}
                       /\ F.pgt[v].present = 1 /\ F2.pgt[v].present = 0
                       /\ S.pgt[v].frame = F.pgt[v].frame
                       /\ S'.frt[S.pgt[v].frame].page = StepPage
                       /\ F2.listoccupied = S.pgt[v].frame
                       /\ S.numframes > 1 => S'.listoccupied # S.pgt[v].frame
           /\ \A p \in Pages(S) :
                 /\ S'.pgt[p].present  = F2.pgt[p].present
                 /\ S'.pgt[p].frame    = F2.pgt[p].frame
                 /\ S'.pgt[p].modified = F2.pgt[p].modified
           /\ S'.frt = F2.frt
           /\ S'.listfree = F2.listfree
           /\ S'.numpagefaults  = F2.numpagefaults
           /\ S'.numpgwriteback = F2.numpgwriteback

C24_SameEvictions == [][C24_PairStep]_vars

\* two frames, five faults, three replacements (pages 0, 1, 2 in this order,
\* one of them written back) in both simulators, whose anchors differ
C24_Witness ==
    /\ S.numframes = 2 /\ hist.trace = <<0, 1, 2, 3, 0>>
    /\ S.numpagefaults = 5 /\ hist.twin.numpagefaults = 5
    /\ hist.nevict = 3 /\ hist.victim = 2
    /\ S.numpgwriteback = 1 /\ hist.twin.numpgwriteback = 1
    /\ Present(S) = {3, 0} /\ Present(hist.twin) = {3, 0}
    /\ S.listoccupied # hist.twin.listoccupied
====
